---- MODULE Spec2Model ----
(***************************************************************************)
(* Obsyncth: the Syncthing supervisor of src/src/main.ts.                  *)
(*                                                                         *)
(*   SyncthingMonitor  the status monitor: two poll loops (events and      *)
(*                     connections), desktop (http.request) and mobile     *)
(*                     (fetch) variants, start/stop.                       *)
(*   Obsyncth          the plugin: startSyncthing / stopSyncthing, the     *)
(*                     config directory and its port marker, the engine   *)
(*                     processes it spawns and signals.                    *)
(*                                                                         *)
(* The monitor object is the record mon, the plugin object the record sup; *)
(* a method is an operator from the object's value before the call to its  *)
(* value after it, so that a method calling another one composes them.     *)
(***************************************************************************)
EXTENDS Integers, Sequences, FiniteSets, TLC

VARIABLES mon, sup

vars == <<mon, sup>>

(***************************************************************************)
(* Bounds of the model.                                                    *)
(***************************************************************************)
\* Event ids the engine hands out are 1..MaxEventId.
MaxEventId == 2
\* Pending poll timers plus event requests in flight, per loop variant.
MaxChains == 2
\* Connections rounds in flight at once, per loop variant.
MaxConnRounds == 1
\* Events in one /rest/events response.
MaxBatch == 1
\* Listeners registered for 'status-update' on the monitor: the model counts
\* them up to this number, which stands for that many or more.
MaxListeners == 2

(***************************************************************************)
(* Values.                                                                 *)
(***************************************************************************)
\* this.timeout * 1000 with this.timeout = 1, and the retry delay, in ms
PollDelay == 1000
RetryDelay == 5000

\* lastEventId: number | undefined
Undefined == -1

OrZero(x) == IF x = Undefined THEN 0 ELSE x

Max(a, b) == IF a >= b THEN a ELSE b

\* The default GUI port, and the ports a loopback remoteUrl names in the model.
DefaultPort == 8384
Ports == {8384, 8385}

\* The device ids of the model: the local device and one peer.
MyID == "ME"
DeviceIds == {"ME", "P1"}

\* A /rest/system/connections body: device id -> connected.
ConnectionsResponses ==
    UNION {[ids -> BOOLEAN] : ids \in SUBSET DeviceIds}

\* The values of StateChanged's data.to the engine reports.
\* The status of a monitor that sees no connected peer
Disconnected == "No devices connected"

EngineStates == {"idle", "scanning", "scan-waiting"}

SyncthingEvents ==
    [id : 1..MaxEventId, type : {"FolderCompletion"}, completion : {50, 100}, to : {""}]
      \cup [id : 1..MaxEventId, type : {"StateChanged"}, completion : {0}, to : EngineStates]
      \cup [id : 1..MaxEventId,
            type : {"DeviceDisconnected", "DeviceConnected", "Other"},
            completion : {0}, to : {""}]

EventBatches == UNION {[1..n -> SyncthingEvents] : n \in 0..MaxBatch}

(***************************************************************************)
(* SyncthingMonitor                                                        *)
(***************************************************************************)
\* The fields of a new SyncthingMonitor, with the model's bookkeeping of what
\* the object has outstanding in the runtime: timers and requests.
MonitorInit ==
    [ token |-> FALSE,
      isMobileMode |-> FALSE,
      \* the port of baseUrl ('http://127.0.0.1:8384' in a new monitor)
      baseUrl |-> DefaultPort,
      status |-> "idle",
      lastEventId |-> Undefined,
      connectedDevicesCount |-> 0,
      availableDevices |-> 0,
      \* pollingTimeoutId: "undefined", or the id of a timer that is still
      \* "pending" or has "fired" (a fired timer's id stays in the field)
      pollingTimeoutId |-> "undefined",
      \* pending setTimeout(poll) timers whose id the field no longer holds
      orphanTimers |-> 0,
      \* pending setTimeout(pollMobile) timers (their ids are never stored)
      mobileTimers |-> 0,
      \* /rest/events requests in flight: http.request (poll), fetch (pollMobile)
      evReq |-> 0,
      evReqM |-> 0,
      \* /rest/system/connections requests in flight (checkConnections)
      connReq |-> 0,
      \* getCurrentDeviceId() promises pending; the connections each closes over
      \* are seen by nothing until it settles, and are drawn then
      idReq |-> 0,
      \* checkConnectionsMobile() calls awaiting /rest/system/status, and
      \* awaiting /rest/system/connections (myDeviceId is drawn with the answer)
      connMStatus |-> 0,
      connMConn |-> 0,
      \* the last event the emitter delivered
      emitted |-> [event |-> "none", status |-> "", nan |-> FALSE,
                   connectedDevicesCount |-> 0, availableDevices |-> 0,
                   delivered |-> 0],
      \* this.events['status-update'].length: the listeners on() has pushed
      listeners |-> 0,
      \* the delay of the poll timer set last, in ms (0: none set yet)
      timerDelay |-> 0,
      \* startMonitoring() was called and stopMonitoring() not since
      monitoring |-> FALSE ]

\* emit(event, data): every listener registered for the event is called
Emit(m, e) ==
    [m EXCEPT !.emitted =
        [event |-> e.event, status |-> e.status, nan |-> e.nan,
         connectedDevicesCount |-> e.connectedDevicesCount,
         availableDevices |-> e.availableDevices,
         delivered |-> IF e.event = "status-update" THEN m.listeners ELSE 0]]

\* emit('status-update', {status, ..., connectedDevicesCount, availableDevices})
Snapshot(m) ==
    [event |-> "status-update", status |-> m.status, nan |-> FALSE,
     connectedDevicesCount |-> m.connectedDevicesCount,
     availableDevices |-> m.availableDevices]

\* emit('status-update', {status, fileCompletion: NaN, ..., availableDevices: NaN})
NaNSnapshot(m) ==
    [event |-> "status-update", status |-> m.status, nan |-> TRUE,
     connectedDevicesCount |-> 0, availableDevices |-> 0]

ApiKeyNotSet(m) ==
    LET m1 == [m EXCEPT !.status = "API key not set"]
    IN  Emit(m1, NaNSnapshot(m1))

\* this.pollingTimeoutId = setTimeout(() => this.poll(), ...)
SetPollTimer(m, delay) ==
    [m EXCEPT !.orphanTimers = IF m.pollingTimeoutId = "pending" THEN @ + 1 ELSE @,
              !.pollingTimeoutId = "pending",
              !.timerDelay = delay]

\* setTimeout(() => this.pollMobile(), ...)
SetMobileTimer(m, delay) ==
    [m EXCEPT !.mobileTimers = @ + 1, !.timerDelay = delay]

processEvent(m, event) ==
    CASE event.type = "FolderCompletion" ->
           \* fileCompletion, globalItems, needItems and the icon: not status
           m
      [] event.type = "StateChanged" ->
           [m EXCEPT !.status = event.to]
      [] event.type = "DeviceDisconnected" ->
           [m EXCEPT !.status = "Device disconnected"]
      [] event.type = "DeviceConnected" ->
           [m EXCEPT !.status = "Device connected"]
      [] OTHER -> m

\* for (const event of events) { lastEventId = max(lastEventId ?? 0, id); processEvent }
RECURSIVE processEvents(_, _)
processEvents(m, events) ==
    IF events = <<>> THEN m
    ELSE LET e == Head(events)
             m1 == [m EXCEPT !.lastEventId = Max(OrZero(m.lastEventId), e.id)]
         IN  processEvents(processEvent(m1, e), Tail(events))

checkConnections(m) ==
    IF ~m.token THEN ApiKeyNotSet(m)
    ELSE [m EXCEPT !.connReq = @ + 1]

poll(m) ==
    IF ~m.token THEN ApiKeyNotSet(m)
    ELSE [m EXCEPT !.evReq = @ + 1]

checkConnectionsMobile(m) ==
    [m EXCEPT !.connMStatus = @ + 1]

pollMobile(m) ==
    IF ~m.token THEN ApiKeyNotSet(m)
    ELSE [m EXCEPT !.evReqM = @ + 1]

startMonitoring(m, apiKeySet, baseUrl, mobile) ==
    LET m1 == [m EXCEPT !.token = apiKeySet, !.baseUrl = baseUrl,
                        !.isMobileMode = mobile, !.monitoring = TRUE]
    IN  IF apiKeySet
        THEN IF mobile
             THEN checkConnectionsMobile(pollMobile(m1))
             ELSE checkConnections(poll(m1))
        ELSE ApiKeyNotSet(m1)

stopMonitoring(m) ==
    LET m1 == IF m.pollingTimeoutId # "undefined"
              THEN [m EXCEPT !.pollingTimeoutId = "undefined"]
              ELSE m
        m2 == [m1 EXCEPT !.lastEventId = Undefined, !.status = "stopped",
                         !.monitoring = FALSE]
    IN  Emit(m2, [event |-> "disconnected", status |-> "", nan |-> FALSE,
                  connectedDevicesCount |-> 0, availableDevices |-> 0])

\* poll(): res.on('end') with 401 or a CSRF Error body
pollEndUnauthorized(m) ==
    LET m1 == [m EXCEPT !.evReq = @ - 1, !.status = "Invalid API key"]
    IN  SetPollTimer(Emit(m1, NaNSnapshot(m1)), RetryDelay)

\* poll(): res.on('end') otherwise; parsed is FALSE when JSON.parse throws or
\* the body is no array (then no event is processed), and the finally runs
pollEnd(m, parsed, events) ==
    LET m1 == [m EXCEPT !.evReq = @ - 1]
        m2 == IF parsed THEN processEvents(m1, events) ELSE m1
        m3 == checkConnections(m2)
    IN  SetPollTimer(Emit(m3, Snapshot(m3)), PollDelay)

\* poll(): req.on('error') without its setTimeout
pollErrorNoRetry(m) ==
    [m EXCEPT !.evReq = @ - 1, !.status = "Connection error"]

\* poll(): req.on('error')
pollError(m) ==
    SetPollTimer([m EXCEPT !.evReq = @ - 1, !.status = "Connection error"], RetryDelay)

\* checkConnections(): res.on('end') with 401 or a CSRF Error body
connEndUnauthorized(m) ==
    [m EXCEPT !.connReq = @ - 1, !.status = "Invalid API key"]

\* checkConnections(): res.on('end') with a parsed body: getCurrentDeviceId().then
connEnd(m) ==
    [m EXCEPT !.connReq = @ - 1, !.idReq = @ + 1]

\* checkConnections(): req.on('error'), or JSON.parse throws
connFail(m) == [m EXCEPT !.connReq = @ - 1]

\* Object.keys(connections).filter(deviceId => deviceId !== myDeviceId)
OtherDevices(connections, myDeviceId) == DOMAIN connections \ {myDeviceId}

ConnectedOf(connections, ids) == {d \in ids : connections[d]}

\* getCurrentDeviceId().then(myDeviceId => ...); myDeviceId is data.myID || ''
deviceIdResolved(m, connections, myDeviceId) ==
    LET otherDevices == OtherDevices(connections, myDeviceId)
        m1 == [m EXCEPT !.idReq = @ - 1,
                        !.availableDevices = Cardinality(otherDevices),
                        !.connectedDevicesCount =
                            Cardinality(ConnectedOf(connections, otherDevices))]
        m2 == IF m1.connectedDevicesCount = 0
              THEN [m1 EXCEPT !.status = Disconnected]
              ELSE m1
    IN  Emit(m2, Snapshot(m2))

\* getCurrentDeviceId() rejects: .catch, "Fallback to old behavior"
deviceIdRejected(m, connections) ==
    [m EXCEPT !.idReq = @ - 1,
              !.availableDevices = Cardinality(DOMAIN connections),
              !.connectedDevicesCount =
                  Cardinality(ConnectedOf(connections, DOMAIN connections))]

\* The finally of pollMobile()
pollMobileFinally(m) ==
    LET m1 == checkConnectionsMobile(m)
    IN  SetMobileTimer(Emit(m1, Snapshot(m1)), PollDelay)

\* pollMobile(): response.status === 401; the return inside try runs the finally
pollMobileEndUnauthorized(m) ==
    LET m1 == [m EXCEPT !.evReqM = @ - 1, !.status = "Invalid API key"]
    IN  pollMobileFinally(SetMobileTimer(Emit(m1, NaNSnapshot(m1)), RetryDelay))

\* pollMobile(): any other response; isArray is FALSE when the response is not
\* ok or its JSON is no array
pollMobileEnd(m, isArray, events) ==
    LET m1 == [m EXCEPT !.evReqM = @ - 1]
    IN  pollMobileFinally(IF isArray THEN processEvents(m1, events) ELSE m1)

\* pollMobile(): fetch or response.json() throws
pollMobileError(m) ==
    pollMobileFinally([m EXCEPT !.evReqM = @ - 1, !.status = "Connection error"])

\* checkConnectionsMobile(): /rest/system/status answered
connMobileStatus(m) ==
    [m EXCEPT !.connMStatus = @ - 1, !.connMConn = @ + 1]

\* checkConnectionsMobile(): the fetch of /rest/system/status throws
connMobileStatusFail(m) == [m EXCEPT !.connMStatus = @ - 1]

\* checkConnectionsMobile(): /rest/system/connections answered ok; myDeviceId
\* is '' when the status response was not ok or had no myID
connMobileEnd(m, connections, myDeviceId) ==
    LET otherDevices == OtherDevices(connections, myDeviceId)
    IN  [m EXCEPT !.connMConn = @ - 1,
                  !.connectedDevicesCount =
                      Cardinality(ConnectedOf(connections, otherDevices)),
                  !.availableDevices = Cardinality(otherDevices)]

\* checkConnectionsMobile(): the fetch of /rest/system/connections throws, or
\* the response is not ok
connMobileFail(m) == [m EXCEPT !.connMConn = @ - 1]

\* The model's caps on what the monitor has outstanding.
MonitorWithinBounds(m) ==
    /\ m.orphanTimers + m.evReq
         + (IF m.pollingTimeoutId = "pending" THEN 1 ELSE 0) <= MaxChains
    /\ m.mobileTimers + m.evReqM <= MaxChains
    /\ m.connReq + m.idReq <= MaxConnRounds
    /\ m.connMStatus + m.connMConn <= MaxConnRounds

(***************************************************************************)
(* Monitor steps: timers firing and responses arriving.                    *)
(***************************************************************************)
MonStep(m) == mon' = m /\ MonitorWithinBounds(m) /\ UNCHANGED sup

\* The timer pollingTimeoutId names fires: () => this.poll()
MonTimerFire ==
    /\ mon.pollingTimeoutId = "pending"
    /\ MonStep(poll([mon EXCEPT !.pollingTimeoutId = "fired"]))

\* A poll timer whose id was overwritten fires
MonOrphanTimerFire ==
    /\ mon.orphanTimers > 0
    /\ MonStep(poll([mon EXCEPT !.orphanTimers = @ - 1]))

MonMobileTimerFire ==
    /\ mon.mobileTimers > 0
    /\ MonStep(pollMobile([mon EXCEPT !.mobileTimers = @ - 1]))

MonPollResponse ==
    /\ mon.evReq > 0
    /\ \/ MonStep(pollEndUnauthorized(mon))
       \/ \E events \in EventBatches : MonStep(pollEnd(mon, TRUE, events))
       \/ MonStep(pollEnd(mon, FALSE, <<>>))
       \/ MonStep(pollError(mon))

MonConnResponse ==
    /\ mon.connReq > 0
    /\ \/ MonStep(connEndUnauthorized(mon))
       \/ MonStep(connEnd(mon))
       \/ MonStep(connFail(mon))

MonDeviceIdResponse ==
    /\ mon.idReq > 0
    /\ \E connections \in ConnectionsResponses :
          \/ \E id \in {MyID, ""} : MonStep(deviceIdResolved(mon, connections, id))
          \/ MonStep(deviceIdRejected(mon, connections))

MonPollMobileResponse ==
    /\ mon.evReqM > 0
    /\ \/ MonStep(pollMobileEndUnauthorized(mon))
       \/ \E events \in EventBatches : MonStep(pollMobileEnd(mon, TRUE, events))
       \/ MonStep(pollMobileEnd(mon, FALSE, <<>>))
       \/ MonStep(pollMobileError(mon))

MonConnMobileStatusResponse ==
    /\ mon.connMStatus > 0
    /\ \/ MonStep(connMobileStatus(mon))
       \/ MonStep(connMobileStatusFail(mon))

MonConnMobileResponse ==
    /\ mon.connMConn > 0
    /\ \/ \E c \in ConnectionsResponses, id \in {MyID, ""} :
             MonStep(connMobileEnd(mon, c, id))
       \/ MonStep(connMobileFail(mon))

MonitorNext ==
    \/ MonTimerFire
    \/ MonOrphanTimerFire
    \/ MonMobileTimerFire
    \/ MonPollResponse
    \/ MonConnResponse
    \/ MonDeviceIdResponse
    \/ MonPollMobileResponse
    \/ MonConnMobileStatusResponse
    \/ MonConnMobileResponse

(***************************************************************************)
(* Obsyncth: the plugin, the engine processes and the config directory.    *)
(***************************************************************************)
\* startSyncthing() invocations in one behaviour.
MaxStarts == 2
\* Engine processes spawned in one behaviour.
MaxProcs == 2
\* Name-kill commands, and saveSettings restart timers, pending at once.
MaxPending == 1

\* syncthingInstance: any | null = null
NoPid == 0
\* storedPort = '' : no .syncthing-port file, or an unreadable one
NoPort == 0

Pids == 1..MaxProcs
Starts == 1..MaxStarts

\* What the engine keeps in its --home directory, and the supervisor's marker.
EngineFiles == {"index.db"}
PortFile == ".syncthing-port"

\* An engine process (the tree tree-kill walks is one unit). sig is the
\* strongest signal sent and not yet delivered; stopped and termIgnored record
\* that stopSyncthing had it as the tracked instance, and that it outlived a
\* delivered SIGTERM.
NoProc ==
    [state |-> "unborn", port |-> NoPort, listening |-> FALSE, sig |-> "none",
     stopped |-> FALSE, termIgnored |-> FALSE]

\* A process that has exited
Dead == [NoProc EXCEPT !.state = "dead"]

\* One startSyncthing() invocation: where it is, its locals, and what it did.
StartIdle ==
    [pc |-> "idle", url |-> NoPort, port |-> NoPort, probe |-> "", installFailed |-> FALSE,
     outcome |-> "", prev |-> NoPid, pid |-> NoPid, purgeDue |-> FALSE,
     priorLeft |-> {}, attempts |-> 0]

(***************************************************************************)
(* The engine's configuration, as checkAndFixEncryptionMismatch() sees it. *)
(***************************************************************************)
\* Folders in the engine's configuration, and device entries in one folder.
MaxFolders == 2
MaxDevices == 2
\* checkAndFixEncryptionMismatch() calls in one behaviour.
MaxCalls == 2

\* device.encryptionPassword: none, the one of the settings, another one
Passwords == {"", "pw", "other"}
\* defaults.folder.device.encryptionPassword === undefined (or no such section)
NoField == "undefined"

\* folder.devices, as the encryptionPassword of each entry
FolderDevices == UNION {[1..n -> Passwords] : n \in 0..MaxDevices}

\* GET /rest/config: the folders, and the encryption field of the template
EngineConfigs ==
    [folders : UNION {[1..n -> FolderDevices] : n \in 0..MaxFolders},
     template : Passwords \cup {NoField}]

\* settings.encryptionEnabled, settings.encryptionPassword
EncryptionPolicies == [encryptionEnabled : BOOLEAN, encryptionPassword : {"", "pw"}]

\* What the code writes into an entry: the password when encryption is
\* enabled and a password is set, "" otherwise
policyPassword(policy) ==
    IF policy.encryptionEnabled /\ policy.encryptionPassword # ""
    THEN policy.encryptionPassword
    ELSE ""

\* device.encryptionPassword && device.encryptionPassword.length > 0
hasEncryption(password) == IF password = "" THEN "" ELSE "true"

\* encryptionStates of a folder, and encryptionStates.size > 1
encryptionStates(devices) == {hasEncryption(devices[d]) : d \in DOMAIN devices}
mismatch(devices) == Cardinality(encryptionStates(devices)) > 1

\* The configuration after a loop that rewrites every folder
fixedConfigOfEveryFolder(config, policy) ==
    [folders |-> [f \in DOMAIN config.folders |->
                     [d \in DOMAIN config.folders[f] |-> policyPassword(policy)]],
     template |-> IF config.template = NoField THEN NoField
                  ELSE policyPassword(policy)]

\* The configuration after the loop over the folders and the defaults section
fixedConfig(config, policy) ==
    [folders |-> [f \in DOMAIN config.folders |->
                     IF mismatch(config.folders[f])
                     THEN [d \in DOMAIN config.folders[f] |-> policyPassword(policy)]
                     ELSE config.folders[f]],
     template |-> IF config.template = NoField THEN NoField
                  ELSE policyPassword(policy)]

\* hasChanges after that loop
hasChanges(config, policy) ==
    \/ \E f \in DOMAIN config.folders : mismatch(config.folders[f])
    \/ config.template # NoField /\ config.template # policyPassword(policy)

\* A configuration that needs no fix: in every folder the entries agree on
\* having a password, and the template, if it has the field, holds the policy's
consistent(config, policy) ==
    /\ \A f \in DOMAIN config.folders :
          \A d1, d2 \in DOMAIN config.folders[f] :
             (config.folders[f][d1] = "") = (config.folders[f][d2] = "")
    /\ config.template \in {NoField, policyPassword(policy)}

\* The engine's configuration, the encryption settings, and for each
\* checkAndFixEncryptionMismatch() call so far: whether the configuration it
\* met needed no fix, whether it wrote, and what it returned.
EncInit ==
    [config |-> [folders |-> <<>>, template |-> NoField],
     policy |-> [encryptionEnabled |-> FALSE, encryptionPassword |-> ""],
     calls |-> <<>>]

\* checkAndFixEncryptionMismatch() writing whatever it found
checkAndFixAlwaysWriting(e, getOk, updateSuccess) ==
    IF ~getOk
    THEN [e EXCEPT !.calls = Append(@, [clean |-> consistent(e.config, e.policy),
                                        wrote |-> FALSE, result |-> FALSE])]
    ELSE [e EXCEPT !.config = IF updateSuccess THEN fixedConfig(e.config, e.policy)
                              ELSE @,
                   !.calls = Append(@, [clean |-> consistent(e.config, e.policy),
                                        wrote |-> TRUE, result |-> updateSuccess])]

\* checkAndFixEncryptionMismatch(). getOk: getSyncthingConfig() resolves;
\* updateSuccess: what updateSyncthingConfig(config) resolves to.
checkAndFixEncryptionMismatch(e, getOk, updateSuccess) ==
    IF ~getOk
    THEN [e EXCEPT !.calls = Append(@, [clean |-> consistent(e.config, e.policy),
                                        wrote |-> FALSE, result |-> FALSE])]
    ELSE IF hasChanges(e.config, e.policy)
    THEN [e EXCEPT !.config = IF updateSuccess THEN fixedConfig(e.config, e.policy)
                              ELSE @,
                   !.calls = Append(@, [clean |-> consistent(e.config, e.policy),
                                        wrote |-> TRUE, result |-> updateSuccess])]
    ELSE [e EXCEPT !.calls = Append(@, [clean |-> consistent(e.config, e.policy),
                                        wrote |-> FALSE, result |-> TRUE])]

(***************************************************************************)
(* The file selection and the ignore patterns generated from it.  A path   *)
(* and a pattern are the sequences of their characters.                    *)
(***************************************************************************)
\* Characters of an entry name, entry names of at most MaxNameLen characters,
\* item paths of at most MaxDepth names, keys of settings.syncedFiles.
MaxNameLen == 2
MaxDepth == 2
MaxItems == 2

NameChars == {"n", "."}
\* entry.name of fs.readdirSync: never "." or ".."
EntryNames ==
    {name \in UNION {[1..n -> NameChars] : n \in 1..MaxNameLen} :
        \E i \in DOMAIN name : name[i] # "."}

RECURSIVE PathsOfDepth(_)
\* itemPath = currentPath ? `${currentPath}/${entry.name}` : entry.name
PathsOfDepth(n) ==
    IF n = 1 THEN EntryNames
    ELSE {currentPath \o <<"/">> \o name :
             currentPath \in PathsOfDepth(n - 1), name \in EntryNames}

ItemPaths == UNION {PathsOfDepth(n) : n \in 1..MaxDepth}
\* The FileItem of a directory listing: its path, and entry.isDirectory()
FileItems == [path : ItemPaths, type : {"folder", "file"}]

\* String.prototype.endsWith, includes, startsWith, and replace(/\/$/, '')
endsWith(str, c) == Len(str) > 0 /\ str[Len(str)] = c
includes(str, c) == \E i \in DOMAIN str : str[i] = c
startsWith(str, prefix) ==
    Len(prefix) <= Len(str) /\ SubSeq(str, 1, Len(prefix)) = prefix
stripSlash(str) == IF endsWith(str, "/") THEN SubSeq(str, 1, Len(str) - 1) ELSE str

\* 'Syncthing binary-config/**' and 'obsyncth/**', each kept as one token
PluginPatterns == << <<"Syncthing binary-config/**">>, <<"obsyncth/**">> >>

\* The patterns pushed for one key of settings.syncedFiles
patternsOf(entry) ==
    IF entry.selected THEN <<>>
    ELSE IF endsWith(entry.path, "/") \/ ~includes(entry.path, ".")
    THEN << stripSlash(entry.path) \o <<"/", "*", "*">>, stripSlash(entry.path) >>
    ELSE << entry.path >>

RECURSIVE generatedPatterns(_)
\* The forEach over Object.keys(this.settings.syncedFiles), in insertion order
generatedPatterns(syncedFiles) ==
    IF syncedFiles = <<>> THEN <<>>
    ELSE patternsOf(Head(syncedFiles)) \o generatedPatterns(Tail(syncedFiles))

\* updateIgnorePatterns() pushing the entries of the selection only
updateIgnorePatternsOfSelection(syncedFiles) == generatedPatterns(syncedFiles)

\* updateIgnorePatterns(): settings.ignorePatterns after it
updateIgnorePatterns(syncedFiles) == generatedPatterns(syncedFiles) \o PluginPatterns

\* settings.syncedFiles and settings.ignorePatterns of the default settings.
\* syncedFiles is the sequence of its keys in insertion order, each with its
\* value (selected) and with the type the directory listing gave for the path.
\* vaultFolderID: settings.vaultFolderID, '' when not configured.  applied: the
\* last applySyncthingIgnorePatterns() call: whether the configuration was
\* read, its folders, the index of the folder chosen (0: none), whether the
\* configuration was posted, and the ignorePatterns of the chosen folder in it.
NotApplied == [read |-> FALSE, folders |-> <<>>, target |-> 0, wrote |-> FALSE,
               patterns |-> <<>>]
SelectionInit ==
    [syncedFiles |-> <<>>, ignorePatterns |-> <<>>, vaultFolderID |-> "",
     applied |-> NotApplied]

\* config.folders of GET /rest/config: the id of each folder, and whether its
\* path contains the vault name, ends in 'vault' or contains 'obsidian'
FolderIds == {"a", "b", "c"}
ConfigFolders ==
    UNION {[1..n -> [id : FolderIds, guess : BOOLEAN]] : n \in 0..MaxFolders}

\* Array.prototype.find, given the callback's result for each element: the
\* index of the first element it accepts, 0 for undefined
find(matches) ==
    IF \E k \in DOMAIN matches : matches[k]
    THEN CHOOSE k \in DOMAIN matches :
            matches[k] /\ \A j \in 1..(k - 1) : ~matches[j]
    ELSE 0

\* vaultFolder of applySyncthingIgnorePatterns()
vaultFolder(folders, vaultFolderID) ==
    LET byId == [k \in DOMAIN folders |-> folders[k].id = vaultFolderID]
        byPath == [k \in DOMAIN folders |-> folders[k].guess]
    IN  IF vaultFolderID # "" THEN find(byId)
        ELSE IF find(byPath) # 0 THEN find(byPath)
        ELSE IF folders # <<>> THEN 1 ELSE 0

\* this.settings.syncedFiles[filePath] = selected, and the loop over the keys
\* below filePath, of toggleFileSelection() on a desktop
setSelection(syncedFiles, item, selected) ==
    LET known == \E k \in DOMAIN syncedFiles : syncedFiles[k].path = item.path
        keys == IF known THEN syncedFiles
                ELSE Append(syncedFiles, [path |-> item.path, type |-> item.type,
                                          selected |-> selected])
    IN  [k \in DOMAIN keys |->
            IF keys[k].path = item.path \/ startsWith(keys[k].path, item.path \o <<"/">>)
            THEN [keys[k] EXCEPT !.selected = selected]
            ELSE keys[k]]

\* The listing agrees with the file system the earlier listings saw: one type
\* for a path, and only a folder has entries below it
listed(syncedFiles, item) ==
    \A k \in DOMAIN syncedFiles :
       /\ syncedFiles[k].path = item.path => syncedFiles[k].type = item.type
       /\ startsWith(syncedFiles[k].path, item.path \o <<"/">>) => item.type = "folder"
       /\ startsWith(item.path, syncedFiles[k].path \o <<"/">>)
             => syncedFiles[k].type = "folder"

(***************************************************************************)
(* The installer: the release asset chosen for the platform.  An asset     *)
(* name and a pattern are the sequences of their '-'-separated parts.      *)
(***************************************************************************)
\* Assets of one release
MaxAssets == 2

\* releaseInfo.assets: names like syncthing-linux-amd64-v1.28.0.tar.gz
ReleaseAssets ==
    UNION {[1..n -> {<<"syncthing", os, arch, "v1.28.0", ext>> :
                        os \in {"windows", "macos", "linux"},
                        arch \in {"amd64", "arm64", "arm", "386", "universal"},
                        ext \in {".zip", ".tar.gz"}}] : n \in 0..MaxAssets}

\* platformPattern of downloadSyncthingExecutable()
platformPattern(platform, arch) ==
    IF platform = "win32"
    THEN <<"syncthing", "windows",
           IF arch = "x64" THEN "amd64" ELSE IF arch = "arm64" THEN "arm64" ELSE "386",
           "v1.28.0">>
    ELSE IF platform = "darwin"
    THEN <<"syncthing", "macos",
           IF arch = "arm64" THEN "arm64" ELSE IF arch = "x64" THEN "amd64"
           ELSE "universal",
           "v1.28.0">>
    ELSE <<"syncthing", "linux",
           IF arch = "x64" THEN "amd64" ELSE IF arch = "arm64" THEN "arm64"
           ELSE IF arch = "arm" THEN "arm" ELSE "386",
           "v1.28.0">>

\* The asset downloadSyncthingExecutable() hands to downloadAndInstallAsset(),
\* as its index in releaseInfo.assets; 0 when it reports that none was found
selectedAsset(platform, arch, assets) ==
    LET named(pattern) == find([k \in DOMAIN assets |-> startsWith(assets[k], pattern)])
        universalAsset == named(<<"syncthing", "macos", "universal", "v1.28.0">>)
        amd64Asset == named(<<"syncthing", "macos", "amd64", "v1.28.0">>)
    IN  IF named(platformPattern(platform, arch)) # 0
        THEN named(platformPattern(platform, arch))
        ELSE IF platform # "darwin" THEN 0
        ELSE IF universalAsset # 0 THEN universalAsset
        ELSE IF arch = "x64" THEN amd64Asset
        ELSE 0

\* The release lookup of one download: the platform, the release's assets, and
\* the asset chosen (-1 before the choice)
ReleaseInit == [platform |-> "linux", arch |-> "x64", assets |-> <<>>, asset |-> -1]

(***************************************************************************)
(* The installer: the archive extracted into the install directory         *)
(* 'Syncthing binary-config', the search for the executable, the copy to   *)
(* the canonical file and the cleanup.  A directory is the file named      *)
(* executableName in it (or NoFile) and its subdirectories in readdir      *)
(* order; a file is its size and whether the new archive brought it.       *)
(***************************************************************************)
\* Subdirectories of the archive's root, and of each of them
MaxDirs == 2
MaxNested == 1

\* 1024 * 1024
MiB == 1048576
NoFile == [size |-> 0, origin |-> "none"]

RECURSIVE Trees(_)
\* What an archive extracts to, with directories nested up to depth levels
Trees(depth) ==
    [exe : {NoFile} \cup [size : {MiB - 1, MiB, MiB + 1}, origin : {"new"}],
     dirs : IF depth = 0 THEN {<<>>}
            ELSE UNION {[1..n -> Trees(depth - 1)] :
                          n \in 0..(IF depth = 2 THEN MaxDirs ELSE MaxNested)}]

RECURSIVE findExecutable(_)
\* findExecutable(dir): the file returned and the number of directories from
\* extractDir down to it, or found = FALSE for null
findExecutable(dir) ==
    IF dir.exe # NoFile /\ dir.exe.size > MiB
    THEN [found |-> TRUE, depth |-> 1, file |-> dir.exe]
    ELSE IF \E k \in DOMAIN dir.dirs : findExecutable(dir.dirs[k]).found
    THEN LET k == CHOOSE k \in DOMAIN dir.dirs :
                     /\ findExecutable(dir.dirs[k]).found
                     /\ \A j \in 1..(k - 1) : ~findExecutable(dir.dirs[j]).found
         IN  [findExecutable(dir.dirs[k]) EXCEPT !.depth = @ + 1]
    ELSE [found |-> FALSE, depth |-> 0, file |-> NoFile]

\* The install directory: the platform; config: 'syncthing-config' is there,
\* populated; canonical: the file at finalPath (on win32 it is the file named
\* executableName of the root, root.exe); root: what else is there.  Of the
\* last extractAndInstallSyncthing(): extracted: the directory as the
\* extraction left it, picked: what findExecutable() returned, result.
InstallInit ==
    [platform |-> "linux", config |-> FALSE, canonical |-> NoFile,
     root |-> [exe |-> NoFile, dirs |-> <<>>],
     extracted |-> [exe |-> NoFile, dirs |-> <<>>],
     picked |-> findExecutable([exe |-> NoFile, dirs |-> <<>>]),
     result |-> "none"]

\* cleanupExtractedFiles(dir, keepFile).  throws: an fs call of the loop
\* throws at the first item, which the catch only logs
cleanupExtractedFiles(t, throws) ==
    IF throws THEN t
    ELSE [t EXCEPT !.config = FALSE,
                   !.root = [exe |-> IF t.platform = "win32" THEN t.root.exe ELSE NoFile,
                             dirs |-> <<>>]]

\* findAndCopyExecutable(extractDir, executableName).  binary: on macOS, the
\* file command does not call the file a text; runs: the test run succeeds
findAndCopyExecutable(t, binary, throws, runs) ==
    LET picked == findExecutable(t.root)
        copied == [t EXCEPT !.picked = picked,
                            !.canonical = picked.file,
                            !.root.exe = IF t.platform = "win32" THEN picked.file ELSE @]
    IN  IF ~picked.found \/ picked.file.size < MiB \/ (t.platform = "darwin" /\ ~binary)
        THEN [t EXCEPT !.picked = picked, !.result = "false"]
        ELSE [cleanupExtractedFiles(copied, throws) EXCEPT
                 !.result = IF t.platform = "darwin" /\ ~runs THEN "false" ELSE "true"]

\* extractAndInstallSyncthing(): the archive is written to the install
\* directory, extracted over what is there, and removed.  code0: the
\* extraction command exits with 0
extractAndInstallSyncthing(t, archive, code0, binary, throws, runs) ==
    LET root == [exe |-> IF archive.exe # NoFile \/ t.platform # "win32"
                         THEN archive.exe ELSE t.canonical,
                 dirs |-> archive.dirs]
        extracted == [t EXCEPT !.root = root, !.extracted = root,
                               !.canonical = IF t.platform = "win32" THEN root.exe ELSE @]
    IN  IF ~code0 THEN [t EXCEPT !.result = "false"]
        ELSE findAndCopyExecutable(extracted, binary, throws, runs)

(***************************************************************************)
(* The operations that read the engine's whole configuration document with *)
(* GET /rest/config, change their copy and POST it back.                   *)
(***************************************************************************)
\* applySyncthingIgnorePatterns(), checkAndFixEncryptionMismatch(), pauseSyncthing()
ConfigOps == {"apply", "fix", "pause"}

\* What the document holds besides the encryption fields: the ignorePatterns
\* of the vault folder (the first folder) and folder.paused; and for each
\* operation where it is, the document it holds and what it returned
RmwInit ==
    [ignorePatterns |-> <<>>, paused |-> FALSE,
     ops |-> [op \in ConfigOps |-> [pc |-> "idle", config |-> <<>>, result |-> ""]]]

\* The plugin after loadSettings(), on a desktop (posix or win32) or in mobile mode.
PluginInit(platform, mode, apiKeySet, executable) ==
    [ platform |-> platform,
      \* settings.useDocker, and isMobile || settings.mobileMode
      mode |-> mode,
      \* !!settings.syncthingApiKey
      apiKeySet |-> apiKeySet,
      \* the port of settings.remoteUrl, a loopback URL
      port |-> DefaultPort,
      \* the binary is installed and executable
      executable |-> executable,
      syncthingInstance |-> NoPid,
      proc |-> [p \in Pids |-> NoProc],
      \* exec(killCommand) commands started and not yet run
      nameKill |-> 0,
      \* the config directory: the engine's files, and the marker's content
      files |-> {},
      marker |-> NoPort,
      starts |-> [i \in Starts |-> StartIdle],
      \* pending setTimeout(() => this.startStatusMonitoring(), 1000) of saveSettings
      restartTimers |-> 0,
      \* the engine's configuration and the encryption settings
      enc |-> EncInit,
      \* the file selection and its ignore patterns
      sel |-> SelectionInit,
      \* the release asset of the download
      rel |-> ReleaseInit,
      \* the install directory
      inst |-> InstallInit,
      \* the rest of the engine's document, and the operations on it
      rmw |-> RmwInit ]

Alive(s) == {p \in Pids : s.proc[p].state = "alive"}

\* getSyncthingURL(), as the port of the URL
getSyncthingURL(s) == s.port

\* startStatusMonitoring(): startMonitoring(), and with an API key
\* this.monitor.on('status-update', ...) after it
startStatusMonitoring(w) ==
    LET m == startMonitoring(w.mon, w.sup.apiKeySet,
                             getSyncthingURL(w.sup), w.sup.mode = "mobile")
    IN  [w EXCEPT !.mon = IF w.sup.apiKeySet
                          THEN [m EXCEPT !.listeners =
                                           IF @ < MaxListeners THEN @ + 1 ELSE @]
                          ELSE m]

\* What a kill command does to a process: tree-kill and taskkill /F force on
\* win32, tree-kill 'SIGTERM' and pkill send SIGTERM elsewhere.
KillSignal(s) == IF s.platform = "win32" THEN "KILL" ELSE "TERM"

Signal(s, pids, sig) ==
    [s EXCEPT !.proc = [p \in Pids |->
        IF p \in pids /\ s.proc[p].state = "alive" /\ s.proc[p].sig # "KILL"
        THEN [s.proc[p] EXCEPT !.sig = sig]
        ELSE s.proc[p]]]

\* kill(pid, 'SIGTERM', cb); this.syncthingInstance = null; exec(killCommand, cb).
\* killed: tree-kill gets its signal out (an error only reaches the logging
\* callback); the signal is on its way from here on.
killAllSyncthingProcesses(s, killed) ==
    LET pid == s.syncthingInstance
        s1 == IF pid # NoPid /\ s.proc[pid].state = "alive"
              THEN [s EXCEPT !.proc[pid].stopped = TRUE]
              ELSE s
        s2 == IF pid # NoPid
              THEN [(IF killed THEN Signal(s1, {pid}, KillSignal(s1)) ELSE s1)
                       EXCEPT !.syncthingInstance = NoPid]
              ELSE s1
    IN  [s2 EXCEPT !.nameKill = @ + 1]

\* stopSyncthing() stopping the monitor only once the kill went through
stopSyncthingAfterKill(w, killed) ==
    LET w1 == IF killed THEN [w EXCEPT !.mon = stopMonitoring(w.mon)] ELSE w
    IN  IF w1.sup.mode = "mobile" THEN w1
        ELSE IF w1.sup.mode = "docker" THEN w1
        ELSE [w1 EXCEPT !.sup = killAllSyncthingProcesses(w1.sup, killed)]

stopSyncthing(w, killed) ==
    LET w1 == [w EXCEPT !.mon = stopMonitoring(w.mon)]
    IN  IF w1.sup.mode = "mobile" THEN w1
        ELSE IF w1.sup.mode = "docker" THEN w1   \* exec('docker compose ... stop')
        ELSE [w1 EXCEPT !.sup = killAllSyncthingProcesses(w1.sup, killed)]

\* ensureConfigForPort(configDir, port). readOk: the marker is read; removed:
\* what the purge loop unlinks before it ends (everything, unless an fs call
\* throws); written: writeFileSync(portFile) succeeds.
ensureConfigForPort(s, i, port, readOk, removed, written) ==
    LET storedPort == IF readOk THEN s.marker ELSE NoPort
        purge == storedPort # NoPort /\ storedPort # port
        gone == IF purge THEN removed ELSE {}
        marker1 == IF PortFile \in gone THEN NoPort ELSE s.marker
    IN  [s EXCEPT !.files = @ \ gone,
                  !.marker = IF written THEN port ELSE marker1,
                  !.starts = [j \in Starts |->
                      IF j = i
                      THEN [@[j] EXCEPT !.port = port,
                                        !.purgeDue = (s.marker # NoPort /\ s.marker # port),
                                        !.priorLeft = s.files \ gone]
                      ELSE [@[j] EXCEPT !.priorLeft = @ \ gone]]]

\* The entries of the config directory
DirEntries(s) == s.files \cup (IF s.marker # NoPort THEN {PortFile} ELSE {})

Finish(s, i, outcome) ==
    [s EXCEPT !.starts[i].pc = "done", !.starts[i].outcome = outcome]

\* startSyncthing() from getSyncthingExecutablePath() to its first timer
startPrepare(w, i, dirsOk, readOk, removed, written, killed) ==
    IF ~dirsOk THEN [w EXCEPT !.sup = Finish(w.sup, i, "directories failed")]
    ELSE LET s1 == ensureConfigForPort(w.sup, i, w.sup.port, readOk, removed, written)
             w1 == [w EXCEPT !.sup = s1]
         IN  IF s1.syncthingInstance # NoPid
             THEN LET w2 == stopSyncthing(
                              [w1 EXCEPT !.sup.starts[i].prev = s1.syncthingInstance],
                              killed)
                  IN  [w2 EXCEPT !.sup.starts[i].pc = "stopWait"]
             ELSE [w1 EXCEPT !.sup.starts[i].pc = "fsWait"]

\* startSyncthing() without the return of its 'already running' branch
startProbedNoReturn(w, i, isRunning, dirsOk, readOk, removed, written, killed) ==
    LET w1 == [w EXCEPT !.sup.starts[i].probe = IF isRunning THEN "up" ELSE "down",
                        !.sup.starts[i].url = NoPort]
    IN  IF w1.sup.mode = "mobile"
             THEN [w1 EXCEPT !.sup = Finish(w1.sup, i, "mobile mode")]
        ELSE IF w1.sup.mode = "docker"
             THEN [w1 EXCEPT !.sup = Finish(w1.sup, i, "docker")]
        ELSE IF w1.sup.executable
             THEN startPrepare(w1, i, dirsOk, readOk, removed, written, killed)
        ELSE [w1 EXCEPT !.sup.starts[i].pc = "download"]

\* startSyncthing(): the .then of isSyncthingRunning()
startProbed(w, i, isRunning, dirsOk, readOk, removed, written, killed) ==
    LET w1 == [w EXCEPT !.sup.starts[i].probe = IF isRunning THEN "up" ELSE "down",
                        !.sup.starts[i].url = NoPort]
    IN  IF isRunning THEN [w1 EXCEPT !.sup = Finish(w1.sup, i, "already running")]
        ELSE IF w1.sup.mode = "mobile"
             THEN [w1 EXCEPT !.sup = Finish(w1.sup, i, "mobile mode")]
        ELSE IF w1.sup.mode = "docker"
             THEN [w1 EXCEPT !.sup = Finish(w1.sup, i, "docker")]
        ELSE IF w1.sup.executable
             THEN startPrepare(w1, i, dirsOk, readOk, removed, written, killed)
        ELSE [w1 EXCEPT !.sup.starts[i].pc = "download"]

\* startSyncthing() without the return of its 'Auto-download failed' branch
startDownloadedNoReturn(w, i, downloadSuccess, dirsOk, readOk, removed, written, killed) ==
    startPrepare([w EXCEPT !.sup.executable = downloadSuccess,
                           !.sup.starts[i].installFailed = ~downloadSuccess],
                 i, dirsOk, readOk, removed, written, killed)

\* startSyncthing(): downloadSyncthingExecutable() settles
startDownloaded(w, i, downloadSuccess, dirsOk, readOk, removed, written, killed) ==
    IF ~downloadSuccess
    THEN [w EXCEPT !.sup = Finish([w.sup EXCEPT !.starts[i].installFailed = TRUE],
                                  i, "download failed")]
    ELSE startPrepare([w EXCEPT !.sup.executable = TRUE], i, dirsOk, readOk, removed, written, killed)

\* startSyncthing(): this.syncthingInstance = spawn(executablePath, args)
startSpawn(s, i, pid, spawnOk) ==
    IF ~spawnOk THEN Finish(s, i, "spawn failed")
    ELSE [s EXCEPT !.syncthingInstance = pid,
                   !.proc[pid] = [NoProc EXCEPT !.state = "alive",
                                                !.port = s.starts[i].port],
                   !.starts[i].pid = pid,
                   !.starts[i].pc = "startupDelay"]

SupWithinBounds(s) == s.nameKill <= MaxPending /\ s.restartTimers <= MaxPending

\* The plugin and its monitor, as one value
World == [sup |-> sup, mon |-> mon]

Step(w) ==
    /\ sup' = w.sup
    /\ mon' = w.mon
    /\ SupWithinBounds(w.sup)
    /\ MonitorWithinBounds(w.mon)

SupStep(s) == Step([World EXCEPT !.sup = s])

\* The outcomes of the file-system calls of one startSyncthing() run
FsOutcomes(s) ==
    [dirsOk : BOOLEAN, readOk : BOOLEAN, written : BOOLEAN,
     removed : SUBSET DirEntries(s), killed : BOOLEAN]

\* isSyncthingRunning(): something answers on the probed port
Answers(s, port) ==
    \E p \in Alive(s) : s.proc[p].listening /\ s.proc[p].port = port

\* startSyncthing() is called (onload, the status bar, the settings tab): it
\* runs up to the isSyncthingRunning() request
StartCall(i) ==
    /\ sup.starts[i].pc = "idle"
    /\ \A j \in Starts : j < i => sup.starts[j].pc # "idle"
    /\ SupStep([sup EXCEPT !.starts[i].pc = "probe",
                           !.starts[i].url = mon.baseUrl])

\* The probe settles; with the binary in place the run goes on to its first timer
ProbeResponse(i) ==
    /\ sup.starts[i].pc = "probe"
    /\ \E o \in FsOutcomes(sup) :
          Step(startProbed(World, i, Answers(sup, sup.starts[i].url),
                           o.dirsOk, o.readOk, o.removed, o.written, o.killed))

\* cleanupExtractedFiles() of an installation removed the config directory,
\* which lies in the install directory (cleaned), or the installation did
\* not get that far or the cleanup threw
installCleaned(s, cleaned) ==
    IF cleaned THEN [s EXCEPT !.files = {}, !.marker = NoPort] ELSE s

\* downloadSyncthingExecutable() settles
DownloadDone(i) ==
    /\ sup.starts[i].pc = "download"
    /\ \E downloadSuccess \in BOOLEAN, cleaned \in BOOLEAN, o \in FsOutcomes(sup) :
          Step(startDownloaded([World EXCEPT !.sup = installCleaned(sup, cleaned)],
                               i, downloadSuccess,
                               o.dirsOk, o.readOk, o.removed, o.written, o.killed))

\* The 1000 ms wait after stopSyncthing() ends
StopWaitDone(i) ==
    /\ sup.starts[i].pc = "stopWait"
    /\ SupStep([sup EXCEPT !.starts[i].pc = "fsWait"])

\* The 100 ms wait ends: spawn
FsWaitDone(i) ==
    /\ sup.starts[i].pc = "fsWait"
    /\ \E pid \in Pids, spawnOk \in BOOLEAN :
          /\ sup.proc[pid].state = "unborn"
          /\ \A q \in Pids : q < pid => sup.proc[q].state # "unborn"
          /\ SupStep(startSpawn(sup, i, pid, spawnOk))

\* The startup delay ends: waitForSyncthingStartup(port) begins
StartupDelayDone(i) ==
    /\ sup.starts[i].pc = "startupDelay"
    /\ SupStep([sup EXCEPT !.starts[i].pc = "waitStartup"])

\* waitForSyncthingStartup() returns: this.startStatusMonitoring()
StartupWaitDone(i) ==
    /\ sup.starts[i].pc = "waitStartup"
    /\ Step(startStatusMonitoring([World EXCEPT !.sup = Finish(sup, i, "started")]))

\* maxAttempts of waitForSyncthingStartup()
maxAttempts == 30

\* One attempt of waitForSyncthingStartup() that never gives up
waitAttemptOnly(w, i, result) ==
    IF result
    THEN startStatusMonitoring([w EXCEPT !.sup = Finish(w.sup, i, "started")])
    ELSE [w EXCEPT !.sup.starts[i].attempts = IF @ + 1 < maxAttempts THEN @ + 1 ELSE @]

\* One attempt of waitForSyncthingStartup(port), with the request's result;
\* after the attempt that responds or the last one the function returns,
\* and the timer callback of startSyncthing() goes on to startStatusMonitoring()
waitAttempt(w, i, result) ==
    IF result
    THEN startStatusMonitoring([w EXCEPT !.sup = Finish(w.sup, i, "started")])
    ELSE IF w.sup.starts[i].attempts + 1 = maxAttempts
    THEN startStatusMonitoring(
            [w EXCEPT !.sup = Finish([w.sup EXCEPT !.starts[i].attempts = @ + 1],
                                     i, "started")])
    ELSE [w EXCEPT !.sup.starts[i].attempts = @ + 1]

\* An attempt of waitForSyncthingStartup() settles: a response only from an
\* engine listening on the port, false on an error or after the 3 s timeout
WaitAttempt(i) ==
    /\ sup.starts[i].pc = "waitStartup"
    /\ \E result \in BOOLEAN :
          /\ result => Answers(sup, sup.starts[i].port)
          /\ Step(waitAttempt(World, i, result))

\* The terminal notices (reporting success or failure) of a startSyncthing()
\* call that ended with the outcome, those of downloadSyncthingExecutable()
\* included
terminalNotices(outcome) ==
    CASE outcome = "already running" -> 0
      [] outcome = "mobile mode" -> 1
      [] outcome = "docker" -> 0
      [] outcome = "download failed" -> 2
      [] outcome = "directories failed" -> 1
      [] outcome = "spawn failed" -> 1
      [] outcome = "started" -> 0

\* stopSyncthing() is called (the status bar, the settings tab, onunload)
StopCall == \E killed \in BOOLEAN : Step(stopSyncthing(World, killed))

\* exec('pkill -f syncthing') or exec('taskkill /F /IM syncthing.exe /T') runs
NameKillRun ==
    /\ sup.nameKill > 0
    /\ \E ok \in BOOLEAN :
          LET s1 == [sup EXCEPT !.nameKill = @ - 1]
          IN  SupStep(IF ok THEN Signal(s1, Alive(s1), KillSignal(s1)) ELSE s1)

\* A signal reaches a process: SIGKILL ends it, SIGTERM ends it if it lets it
SignalDeliver(p) ==
    /\ sup.proc[p].state = "alive"
    /\ sup.proc[p].sig # "none"
    /\ \/ SupStep([sup EXCEPT !.proc[p] = Dead])
       \/ /\ sup.proc[p].sig = "TERM"
          /\ SupStep([sup EXCEPT !.proc[p].sig = "none",
                                 !.proc[p].termIgnored = TRUE])

\* The engine binds its GUI/API port, when no other process holds it
EngineListen(p) ==
    /\ sup.proc[p].state = "alive"
    /\ ~sup.proc[p].listening
    /\ ~Answers(sup, sup.proc[p].port)
    /\ SupStep([sup EXCEPT !.proc[p].listening = TRUE])

\* The engine writes a file of its home directory anew
EngineWrite(p, f) ==
    /\ sup.proc[p].state = "alive"
    /\ SupStep([sup EXCEPT !.files = @ \cup {f},
                           !.starts = [j \in Starts |->
                                          [@[j] EXCEPT !.priorLeft = @ \ {f}]]])

\* The engine exits by itself; the 'exit' handler only logs
EngineExit(p) ==
    /\ sup.proc[p].state = "alive"
    /\ SupStep([sup EXCEPT !.proc[p] = Dead])

\* saveSettings() after the settings tab changed the URL or the API key
saveSettings(port, apiKeySet) ==
    Step([sup |-> [sup EXCEPT !.port = port, !.apiKeySet = apiKeySet,
                              !.restartTimers = @ + 1,
                              !.sel.ignorePatterns =
                                  updateIgnorePatterns(sup.sel.syncedFiles)],
          mon |-> stopMonitoring(mon)])

\* setTimeout(() => this.startStatusMonitoring(), 1000) of saveSettings fires
RestartTimerFire ==
    /\ sup.restartTimers > 0
    /\ Step(startStatusMonitoring([World EXCEPT !.sup.restartTimers = @ - 1]))

\* saveSettings() and then updateIgnorePatterns(), as the handlers of the
\* file manager call them, on the plugin with the selection syncedFiles
selectionSaved(w, syncedFiles) ==
    [sup |-> [w.sup EXCEPT !.restartTimers = @ + 1,
                           !.sel.syncedFiles = syncedFiles,
                           !.sel.ignorePatterns = updateIgnorePatterns(syncedFiles)],
     mon |-> stopMonitoring(w.mon)]

\* applySyncthingIgnorePatterns(). getSyncthingConfig() rejects without an API
\* key; getOk: it resolves, with the folders.
applySyncthingIgnorePatterns(s, getOk, folders) ==
    IF ~(s.apiKeySet /\ getOk)
    THEN [s EXCEPT !.sel.applied = NotApplied]
    ELSE IF vaultFolder(folders, s.sel.vaultFolderID) = 0
    THEN [s EXCEPT !.sel.applied = [NotApplied EXCEPT !.read = TRUE, !.folders = folders]]
    ELSE [s EXCEPT !.sel.applied =
             [read |-> TRUE, folders |-> folders,
              target |-> vaultFolder(folders, s.sel.vaultFolderID),
              wrote |-> TRUE, patterns |-> s.sel.ignorePatterns]]

\* toggleFileSelection(item.path, checkbox.checked) of the file manager, on a
\* desktop, for an item of the directory listing
toggleFileSelection(item, selected, getOk, folders) ==
    /\ sup.mode # "mobile"
    /\ listed(sup.sel.syncedFiles, item)
    /\ Len(setSelection(sup.sel.syncedFiles, item, selected)) <= MaxItems
    /\ LET w == selectionSaved(World, setSelection(sup.sel.syncedFiles, item, selected))
       IN  Step([w EXCEPT !.sup = applySyncthingIgnorePatterns(w.sup, getOk, folders)])

\* The click handler of applyPatternsBtn
applyPatternsClick(getOk, folders) ==
    SupStep(applySyncthingIgnorePatterns(sup, getOk, folders))

\* The engine's configuration document, as GET /rest/config returns it
document(s) ==
    [enc |-> s.enc.config, ignorePatterns |-> s.rmw.ignorePatterns,
     paused |-> s.rmw.paused]

\* The operation goes on to updateSyncthingConfig(config): apply when it finds
\* a folder, the encryption check when hasChanges, pause always
configWrites(s, op, config) ==
    CASE op = "apply" -> config.enc.folders # <<>>
      [] op = "fix" -> hasChanges(config.enc, s.enc.policy)
      [] op = "pause" -> TRUE

\* What the operation changes in its copy of the document
configModified(s, op, config) ==
    CASE op = "apply" -> [config EXCEPT !.ignorePatterns = s.sel.ignorePatterns]
      [] op = "fix" -> [config EXCEPT !.enc = fixedConfig(config.enc, s.enc.policy)]
      [] op = "pause" -> [config EXCEPT !.paused = TRUE]

\* The operation from its call to its updateSyncthingConfig(config) request:
\* getSyncthingConfig() rejects (no API key, or ~getOk), or resolves with the
\* engine's document
configRead(s, op, getOk) ==
    IF ~(s.apiKeySet /\ getOk)
    THEN [s EXCEPT !.rmw.ops[op] = [pc |-> "done", config |-> <<>>, result |-> "failed"]]
    ELSE IF ~configWrites(s, op, document(s))
    THEN [s EXCEPT !.rmw.ops[op] =
             [pc |-> "done", config |-> <<>>,
              result |-> IF op = "fix" THEN "ok" ELSE "failed"]]
    ELSE [s EXCEPT !.rmw.ops[op] =
             [pc |-> "writing", config |-> configModified(s, op, document(s)),
              result |-> ""]]

\* The engine answers the POST /rest/config of the operation: with 200 it has
\* replaced its document by the posted one
configWritten(s, op, updateSuccess) ==
    LET config == s.rmw.ops[op].config
    IN  IF updateSuccess
        THEN [s EXCEPT !.enc.config = config.enc,
                       !.rmw.ignorePatterns = config.ignorePatterns,
                       !.rmw.paused = config.paused,
                       !.rmw.ops[op] = [pc |-> "done", config |-> <<>>, result |-> "ok"]]
        ELSE [s EXCEPT !.rmw.ops[op] =
                 [pc |-> "done", config |-> <<>>, result |-> "failed"]]

ConfigRead(op) ==
    /\ sup.rmw.ops[op].pc = "idle"
    /\ \E getOk \in BOOLEAN : SupStep(configRead(sup, op, getOk))

ConfigWritten(op) ==
    /\ sup.rmw.ops[op].pc = "writing"
    /\ \E updateSuccess \in BOOLEAN : SupStep(configWritten(sup, op, updateSuccess))

\* display() of the settings tab ends in updatePatternsDisplay()
display(w) ==
    [w EXCEPT !.sup.sel.ignorePatterns = updateIgnorePatterns(w.sup.sel.syncedFiles)]

\* The click handlers of selectAllBtn (selected) and deselectAllBtn
selectAll(selected) ==
    Step(selectionSaved(World, [k \in DOMAIN sup.sel.syncedFiles |->
                                   [sup.sel.syncedFiles[k] EXCEPT !.selected = selected]]))

(***************************************************************************)
(* The specifications.                                                     *)
(***************************************************************************)
Platforms == {"posix", "win32"}
Modes == {"local", "docker", "mobile"}

\* onload(): loadSettings(), new SyncthingMonitor(), startStatusMonitoring()
onload(platform, mode, apiKeySet, executable) ==
    startStatusMonitoring([sup |-> PluginInit(platform, mode, apiKeySet, executable),
                           mon |-> MonitorInit])

\* The supervisor with the default settings' empty API key: the monitor is
\* started and stopped, and runs no loop.
InitSup ==
    \E platform \in Platforms, mode \in Modes, executable \in BOOLEAN :
       /\ sup = onload(platform, mode, FALSE, executable).sup
       /\ mon = onload(platform, mode, FALSE, executable).mon

SupervisorNext ==
    \/ \E i \in Starts :
          \/ StartCall(i)
          \/ ProbeResponse(i)
          \/ DownloadDone(i)
          \/ StopWaitDone(i)
          \/ FsWaitDone(i)
          \/ StartupDelayDone(i)
          \/ StartupWaitDone(i)
    \/ StopCall
    \/ \E p \in Pids :
          \/ SignalDeliver(p)
          \/ EngineListen(p)
          \/ EngineExit(p)
          \/ \E f \in EngineFiles : EngineWrite(p, f)
    \/ NameKillRun

SpecSup == InitSup /\ [][SupervisorNext]_vars

\* The supervisor when the settings tab moves the engine to another port
\* between one startSyncthing() and the next.
InitCfg ==
    /\ sup = onload("posix", "local", FALSE, TRUE).sup
    /\ mon = onload("posix", "local", FALSE, TRUE).mon

\* startSyncthing() is called when the calls before it have returned
StartAfter(i) ==
    /\ \A j \in Starts : j < i => sup.starts[j].pc = "done"
    /\ StartCall(i)

NextCfg ==
    \/ \E i \in Starts :
          \/ StartAfter(i)
          \/ ProbeResponse(i)
          \/ StopWaitDone(i)
          \/ FsWaitDone(i)
          \/ StartupDelayDone(i)
          \/ StartupWaitDone(i)
    \/ \E p \in Pids :
          \/ SignalDeliver(p)
          \/ EngineListen(p)
          \/ EngineExit(p)
          \/ \E f \in EngineFiles : EngineWrite(p, f)
    \/ StopCall
    \/ NameKillRun
    \/ RestartTimerFire
    \/ \E port \in Ports : saveSettings(port, FALSE)

SpecCfg == InitCfg /\ [][NextCfg]_vars

\* The monitor with its loops, and the plugin calls that start and stop it; no
\* engine is spawned.
InitMon ==
    \E mode \in Modes, apiKeySet \in BOOLEAN :
       /\ sup = onload("posix", mode, apiKeySet, TRUE).sup
       /\ mon = onload("posix", mode, apiKeySet, TRUE).mon

NextMon ==
    \/ MonitorNext
    \/ StopCall
    \/ NameKillRun
    \/ RestartTimerFire
    \/ \E apiKeySet \in BOOLEAN : saveSettings(DefaultPort, apiKeySet)

SpecMon == InitMon /\ [][NextMon]_vars

\* checkAndFixEncryptionMismatch() called on every configuration and policy,
\* with nothing else changing the engine's configuration.
InitEnc ==
    \E config \in EngineConfigs, policy \in EncryptionPolicies :
       /\ sup = [onload("posix", "local", TRUE, TRUE).sup
                   EXCEPT !.enc = [EncInit EXCEPT !.config = config,
                                                  !.policy = policy]]
       /\ mon = onload("posix", "local", TRUE, TRUE).mon

CheckEncryption ==
    /\ Len(sup.enc.calls) < MaxCalls
    /\ \E getOk \in BOOLEAN, updateSuccess \in BOOLEAN :
          SupStep([sup EXCEPT !.enc =
                      checkAndFixEncryptionMismatch(@, getOk, updateSuccess)])

SpecEnc == InitEnc /\ [][CheckEncryption]_vars

\* The file manager of the settings tab on a desktop with the default
\* settings: files and folders are selected and deselected.  Without an API
\* key no request reaches the engine.
InitIgn ==
    /\ sup = display(onload("posix", "local", FALSE, TRUE)).sup
    /\ mon = onload("posix", "local", FALSE, TRUE).mon

NextIgn ==
    \/ \E item \in FileItems, selected \in BOOLEAN :
          toggleFileSelection(item, selected, FALSE, <<>>)
    \/ \E selected \in BOOLEAN : selectAll(selected)
    \/ RestartTimerFire

SpecIgn == InitIgn /\ [][NextIgn]_vars

\* The file manager with an API key set and an engine with one folder, on the
\* settings loadSettings() read: no selection, or one entry selected or not.
\* The monitor's requests stay unanswered, so no restart timer fires.
InitKey ==
    \E syncedFiles \in {<<>>} \cup {<<[path |-> item.path, type |-> item.type,
                                       selected |-> selected]>> :
                                       item \in FileItems, selected \in BOOLEAN} :
       LET w == onload("posix", "local", TRUE, TRUE)
       IN  /\ sup = display([w EXCEPT !.sup.sel.syncedFiles = syncedFiles]).sup
           /\ mon = w.mon

NextKey ==
    \/ \E item \in FileItems, selected \in BOOLEAN, getOk \in BOOLEAN :
          toggleFileSelection(item, selected, getOk, <<[id |-> "a", guess |-> FALSE]>>)
    \/ \E selected \in BOOLEAN : selectAll(selected)
    \/ \E getOk \in BOOLEAN :
          applyPatternsClick(getOk, <<[id |-> "a", guess |-> FALSE]>>)

SpecKey == InitKey /\ [][NextKey]_vars

\* applySyncthingIgnorePatterns() for every configured folder ID and every
\* list of folders
InitApply ==
    \E vaultFolderID \in FolderIds \cup {""} :
       /\ sup = [display(onload("posix", "local", TRUE, TRUE)).sup
                    EXCEPT !.sel.vaultFolderID = vaultFolderID]
       /\ mon = onload("posix", "local", TRUE, TRUE).mon

NextApply ==
    \E getOk \in BOOLEAN, folders \in ConfigFolders : applyPatternsClick(getOk, folders)

SpecApply == InitApply /\ [][NextApply]_vars

\* downloadSyncthingExecutable() choosing the asset, for every platform and
\* every list of assets
InitAsset ==
    \E platform \in {"win32", "darwin", "linux"},
       arch \in {"x64", "arm64", "arm", "ia32"}, assets \in ReleaseAssets :
       /\ sup = [onload("posix", "local", FALSE, FALSE).sup
                    EXCEPT !.rel = [ReleaseInit EXCEPT !.platform = platform,
                                        !.arch = arch, !.assets = assets]]
       /\ mon = onload("posix", "local", FALSE, FALSE).mon

SelectAsset ==
    /\ sup.rel.asset = -1
    /\ SupStep([sup EXCEPT !.rel.asset =
                    selectedAsset(sup.rel.platform, sup.rel.arch, sup.rel.assets)])

SpecAsset == InitAsset /\ [][SelectAsset]_vars

\* One installation into an install directory that is empty or holds the
\* canonical executable and the engine's configuration of an earlier one
InitInst ==
    \E platform \in {"win32", "darwin", "linux"}, reinstall \in BOOLEAN,
       config \in BOOLEAN :
       /\ sup = [onload("posix", "local", FALSE, FALSE).sup
                    EXCEPT !.inst.platform = platform,
                           !.inst.config = config,
                           !.inst.canonical =
                               IF reinstall THEN [size |-> MiB + 1, origin |-> "old"]
                               ELSE NoFile,
                           !.inst.root.exe =
                               IF reinstall /\ platform = "win32"
                               THEN [size |-> MiB + 1, origin |-> "old"]
                               ELSE NoFile]
       /\ mon = onload("posix", "local", FALSE, FALSE).mon

Install ==
    /\ sup.inst.result = "none"
    /\ \E archive \in Trees(2), code0, binary, throws, runs \in BOOLEAN :
          SupStep([sup EXCEPT !.inst = extractAndInstallSyncthing(
                                           sup.inst, archive, code0, binary, throws, runs)])

SpecInst == InitInst /\ [][Install]_vars

\* The local supervisor with the binary in place, the readiness wait of
\* startSyncthing() taken attempt by attempt
InitWait ==
    \E platform \in Platforms :
       /\ sup = onload(platform, "local", FALSE, TRUE).sup
       /\ mon = onload(platform, "local", FALSE, TRUE).mon

NextWait ==
    \/ \E i \in Starts :
          \/ StartAfter(i)
          \/ ProbeResponse(i)
          \/ StopWaitDone(i)
          \/ FsWaitDone(i)
          \/ StartupDelayDone(i)
          \/ WaitAttempt(i)
    \/ \E p \in Pids :
          \/ SignalDeliver(p)
          \/ EngineListen(p)
          \/ EngineExit(p)
    \/ NameKillRun

\* The startup timer fires, and each request of the wait settles
SpecWait ==
    /\ InitWait /\ [][NextWait]_vars
    /\ \A i \in Starts : WF_vars(StartupDelayDone(i)) /\ WF_vars(WaitAttempt(i))

\* The three operations on the engine's document, each called once, on every
\* configuration and policy, their requests answered in any order.
InitRmw ==
    \E config \in EngineConfigs, policy \in EncryptionPolicies :
       /\ sup = [display(onload("posix", "local", TRUE, TRUE)).sup
                   EXCEPT !.enc = [EncInit EXCEPT !.config = config,
                                                  !.policy = policy]]
       /\ mon = onload("posix", "local", TRUE, TRUE).mon

NextRmw == \E op \in ConfigOps : ConfigRead(op) \/ ConfigWritten(op)

SpecRmw == InitRmw /\ [][NextRmw]_vars

\* The same, where a timer that stays pending fires
SpecMonFair ==
    /\ SpecMon
    /\ WF_vars(MonTimerFire)
    /\ WF_vars(MonOrphanTimerFire)
    /\ WF_vars(MonMobileTimerFire)

(***************************************************************************)
(* Properties.                                                             *)
(***************************************************************************)
\* startSyncthing() invocation i spawns in this step
Spawns(i) ==
    /\ sup.starts[i].pc = "fsWait"
    /\ sup'.starts[i].pc = "startupDelay"

\* C1: under any interleaving of startSyncthing() calls, at most one engine
\* process spawned by the plugin is alive at any time.
C1_AtMostOneEngineAlive == Cardinality(Alive(sup)) <= 1

\* C2: when a startSyncthing() call that found a previous process handle
\* spawns, the process that handle named has exited.
C2_PreviousExitedBeforeSpawn ==
    [][\A i \in Starts :
          (Spawns(i) /\ sup.starts[i].prev # NoPid)
             => sup.proc[sup.starts[i].prev].state = "dead"]_vars

\* C3: from stopMonitoring() to the next startMonitoring() the monitor's state
\* stays as the stop left it: status 'stopped', lastEventId cleared, no
\* status-update emitted.
C3_StoppedStaysStopped ==
    ~mon.monitoring =>
        /\ mon.status = "stopped"
        /\ mon.lastEventId = Undefined
        /\ mon.emitted.event # "status-update"

\* C4: when a startSyncthing() call whose port differs from the port the
\* marker recorded spawns, nothing of what the config directory held when the
\* call reconciled it is left.
C4_PurgedBeforeSpawn ==
    [][\A i \in Starts :
          (Spawns(i) /\ sup.starts[i].purgeDue) => sup.starts[i].priorLeft = {}]_vars

C7_EscalatesAfterGraceful ==
    \A p \in Pids :
       (sup.proc[p].state = "alive" /\ sup.proc[p].stopped /\ sup.proc[p].termIgnored)
          => (sup.proc[p].sig # "none" \/ sup.nameKill > 0)

\* The monitor as stopMonitoring() leaves it
MonitorStopped(m) ==
    /\ m.status = "stopped"
    /\ ~m.monitoring
    /\ m.pollingTimeoutId = "undefined"
    /\ m.lastEventId = Undefined
    /\ m.emitted.event = "disconnected"

RoundEnds(c, id) ==
    \/ mon.idReq > 0 /\ mon' = deviceIdResolved(mon, c, id)
    \/ mon.idReq > 0 /\ mon' = deviceIdRejected(mon, c)
    \/ mon.connMConn > 0 /\ mon' = connMobileEnd(mon, c, id)

\* C9: a connections round that computes zero connected peers sets and emits
\* the 'disconnected' status.
C9_ZeroPeersDisconnected ==
    [][\A c \in ConnectionsResponses, id \in {MyID, ""} :
          (RoundEnds(c, id) /\ mon'.connectedDevicesCount = 0) =>
             /\ mon'.status = Disconnected
             /\ mon'.emitted.event = "status-update"
             /\ mon'.emitted.status = Disconnected]_vars

\* C10: a connections round on a response that holds the local device's ID
\* stores counts that leave that ID out.
C10_SelfNotCounted ==
    [][\A c \in ConnectionsResponses, id \in {MyID, ""} :
          (RoundEnds(c, id) /\ MyID \in DOMAIN c) =>
             /\ mon'.availableDevices = Cardinality(DOMAIN c \ {MyID})
             /\ mon'.connectedDevicesCount =
                   Cardinality(ConnectedOf(c, DOMAIN c \ {MyID}))]_vars

\* The monitor's statuses: API key not set (unconfigured), Invalid API key,
\* Connection error, idle, scanning, syncing, no or lost peer (disconnected),
\* Device connected, and the terminal stopped.
ClosedStatusSet ==
    {"API key not set", "Invalid API key", "Connection error", "idle", "scanning",
     "syncing", Disconnected, "Device disconnected", "Device connected", "stopped"}

\* C11: the monitor's status is always a member of the closed status set,
\* whatever state a StateChanged event reports.
C11_StatusInClosedSet == mon.status \in ClosedStatusSet

\* An event-loop round ends in this step with 401 or a CSRF-error body
EventRoundUnauthorized ==
    \/ mon.evReq > 0 /\ mon' = pollEndUnauthorized(mon)
    \/ mon.evReqM > 0 /\ mon' = pollMobileEndUnauthorized(mon)

\* An event-loop round ends in this step with a transport error
EventRoundError ==
    \/ mon.evReq > 0 /\ mon' = pollError(mon)
    \/ mon.evReqM > 0 /\ mon' = pollMobileError(mon)

\* C12: an event-loop round that ends with 401 or a CSRF-error body sets
\* 'Invalid API key', one that ends with a transport error sets 'Connection
\* error', and in both cases the poll timer it sets last waits the 5 s retry
\* delay, in the desktop and in the mobile loop.
C12_ErrorsBackOff ==
    [][/\ EventRoundUnauthorized =>
             mon'.status = "Invalid API key" /\ mon'.timerDelay = RetryDelay
       /\ EventRoundError =>
             mon'.status = "Connection error" /\ mon'.timerDelay = RetryDelay]_vars

\* A /rest/events request of the loop the monitor runs is in flight
EventPollInFlight == IF mon.isMobileMode THEN mon.evReqM > 0 ELSE mon.evReq > 0

\* C13: while monitoring runs with an API key, whenever no event poll is in
\* flight (the last one ended, with whatever outcome) another one is
\* eventually issued, unless monitoring is stopped or loses its key first.
C13_PollingContinues ==
    (mon.monitoring /\ mon.token /\ ~EventPollInFlight)
       ~> (EventPollInFlight \/ ~(mon.monitoring /\ mon.token))

C13_Witness ==
    /\ mon.monitoring /\ mon.token /\ ~EventPollInFlight
    /\ mon.status \in {"Invalid API key", "Connection error"}

\* The last event emitted is a status-update carrying the monitor's state m
SnapshotEmitted(m) ==
    /\ m.emitted.event = "status-update"
    /\ m.emitted.status = m.status
    /\ \/ m.emitted.nan
       \/ /\ m.emitted.connectedDevicesCount = m.connectedDevicesCount
          /\ m.emitted.availableDevices = m.availableDevices

\* A round of the event loop ends in this step
EventRoundEnds ==
    \/ EventRoundUnauthorized
    \/ EventRoundError
    \/ \E parsed \in BOOLEAN, events \in EventBatches :
          \/ mon.evReq > 0 /\ mon' = pollEnd(mon, parsed, events)
          \/ mon.evReqM > 0 /\ mon' = pollMobileEnd(mon, parsed, events)

\* A round of the connections loop ends in this step
ConnectionsRoundEnds ==
    \/ mon.connReq > 0 /\ mon' = connEndUnauthorized(mon)
    \/ mon.connReq > 0 /\ mon' = connFail(mon)
    \/ \E c \in ConnectionsResponses, id \in {MyID, ""} : RoundEnds(c, id)
    \/ mon.connMStatus > 0 /\ mon' = connMobileStatusFail(mon)
    \/ mon.connMConn > 0 /\ mon' = connMobileFail(mon)

\* C14: every round of the event loop and of the connections loop, however it
\* ends, has emitted a status-update snapshot of the state it leaves.
C14_EveryRoundEmits ==
    [][(EventRoundEnds \/ ConnectionsRoundEnds) => SnapshotEmitted(mon')]_vars

\* C15: within a monitoring session lastEventId never decreases, and a
\* session begins, and issues its first poll, with lastEventId cleared: no
\* event of that session has been seen.
C15_CursorIsSessionMax ==
    [][/\ (mon.monitoring /\ mon'.monitoring)
            => OrZero(mon'.lastEventId) >= OrZero(mon.lastEventId)
       /\ (~mon.monitoring /\ mon'.monitoring)
            => mon'.lastEventId = Undefined]_vars

\* An event-loop round ends in this step, on a response that holds events
EventRoundOn(events) ==
    \/ mon.evReq > 0 /\ mon' = pollEnd(mon, TRUE, events)
    \/ mon.evReqM > 0 /\ mon' = pollMobileEnd(mon, TRUE, events)

\* C16: a round that processes a FolderCompletion event leaves the status
\* 'idle' when the completion is 100 and 'syncing' when it is below.
C16_FolderCompletionSetsStatus ==
    [][\A e \in SyncthingEvents :
          (e.type = "FolderCompletion" /\ mon.token /\ EventRoundOn(<<e>>))
             => mon'.status = IF e.completion = 100 THEN "idle" ELSE "syncing"]_vars

\* No setTimeout of either poll loop is pending
NoPendingPollTimer(m) ==
    /\ m.pollingTimeoutId # "pending"
    /\ m.orphanTimers = 0
    /\ m.mobileTimers = 0

\* What the claim says of stopMonitoring() called on the monitor m
StopIsIdempotentOn(m) ==
    LET once == stopMonitoring(m)
        twice == stopMonitoring(once)
    IN  /\ twice = once
        /\ NoPendingPollTimer(once)
        /\ once.lastEventId = Undefined
        /\ once.status = "stopped"
        /\ once.emitted.event = "disconnected"
        /\ twice.emitted.event = "disconnected"

\* C17: on the monitor as it is in any reachable state, and on a monitor never
\* started, a second stopMonitoring() leaves what the first left: no pending
\* poll timer, lastEventId cleared, status 'stopped', 'disconnected' emitted.
C17_StopIdempotent == StopIsIdempotentOn(mon) /\ StopIsIdempotentOn(MonitorInit)

EncryptionCheckSucceeds ==
    /\ Len(sup'.enc.calls) = Len(sup.enc.calls) + 1
    /\ sup'.enc.calls[Len(sup'.enc.calls)].result

\* The entries of a folder disagree on having an encryption password
disagree(devices) ==
    \E d1, d2 \in DOMAIN devices : (devices[d1] = "") # (devices[d2] = "")

\* The password new devices inherit from the folder-default template
templatePassword(config) == IF config.template = NoField THEN "" ELSE config.template

\* Every folder that disagreed before the call holds the policy's password in
\* all its entries after it
DisagreeingFoldersFixed ==
    \A f \in DOMAIN sup.enc.config.folders :
       disagree(sup.enc.config.folders[f]) =>
          \A d \in DOMAIN sup'.enc.config.folders[f] :
             sup'.enc.config.folders[f][d] = policyPassword(sup.enc.policy)

\* C19: after a checkAndFixEncryptionMismatch() call that returned true, every
\* folder whose entries disagreed holds the policy's password in all entries,
\* and the folder-default template holds the policy's password.
C19_PolicyAppliedEverywhere ==
    [][EncryptionCheckSucceeds =>
          /\ DisagreeingFoldersFixed
          /\ templatePassword(sup'.enc.config) = policyPassword(sup.enc.policy)]_vars

\* The key P of settings.syncedFiles stands for a folder (a file) in the
\* directory listing and is deselected
Deselected(type) ==
    {sup.sel.syncedFiles[k].path : k \in {k \in DOMAIN sup.sel.syncedFiles :
        /\ sup.sel.syncedFiles[k].type = type
        /\ ~sup.sel.syncedFiles[k].selected}}
Selected ==
    {sup.sel.syncedFiles[k].path : k \in {k \in DOMAIN sup.sel.syncedFiles :
        sup.sel.syncedFiles[k].selected}}
IgnoreEntries == {sup.sel.ignorePatterns[k] : k \in DOMAIN sup.sel.ignorePatterns}

\* C20: the generated ignore patterns hold, for every deselected directory P,
\* both P/** and P; for every deselected file exactly its literal path (and
\* no P/**); and for a selected path neither entry.
C20_PatternsFollowSelection ==
    /\ \A P \in Deselected("folder") :
          P \o <<"/", "*", "*">> \in IgnoreEntries /\ P \in IgnoreEntries
    /\ \A P \in Deselected("file") :
          P \in IgnoreEntries /\ P \o <<"/", "*", "*">> \notin IgnoreEntries
    /\ \A P \in Selected :
          P \notin IgnoreEntries /\ P \o <<"/", "*", "*">> \notin IgnoreEntries

\* C21: the ignore list that applySyncthingIgnorePatterns() posts to the engine
\* holds the two fixed entries for the plugin's own directories, whatever
\* was selected, toggled and saved before.
C21_FixedEntriesApplied ==
    sup.sel.applied.wrote =>
       \A k \in DOMAIN PluginPatterns :
          \E j \in DOMAIN sup.sel.applied.patterns :
             sup.sel.applied.patterns[j] = PluginPatterns[k]

C21_Witness ==
    /\ sup.sel.applied.wrote
    /\ \E k \in DOMAIN sup.sel.syncedFiles : ~sup.sel.syncedFiles[k].selected

\* C22: applySyncthingIgnorePatterns() picks the folder with the configured
\* ID, without a configured ID the first folder whose path looks like the
\* vault, else the first folder; it finds no folder, and posts nothing, if
\* and only if the configuration read has no folders.
C22_TargetFolderChosen ==
    LET a == sup.sel.applied
        id == sup.sel.vaultFolderID
    IN  a.read =>
           /\ (id # "" /\ \E k \in DOMAIN a.folders : a.folders[k].id = id)
                 => a.target # 0 /\ a.folders[a.target].id = id
           /\ (id = "" /\ \E k \in DOMAIN a.folders : a.folders[k].guess)
                 => a.target # 0 /\ a.folders[a.target].guess
           /\ (id = "" /\ a.folders # <<>> /\ \A k \in DOMAIN a.folders : ~a.folders[k].guess)
                 => a.target = 1
           /\ (a.target = 0) = (a.folders = <<>>)
           /\ a.wrote = (a.target # 0)

\* C23: the asset chosen is the first one whose name starts with the
\* platform's pattern; on macOS, when there is none, the first universal
\* asset, and when there is none either, the first amd64 asset; none is
\* reported only if all these fail.  On linux x64 the linux-amd64 asset.
C23_AssetSelectionTotal ==
    LET r == sup.rel
        matches(pattern) == {k \in DOMAIN r.assets : startsWith(r.assets[k], pattern)}
        first(pattern) == CHOOSE k \in matches(pattern) : \A j \in matches(pattern) : k <= j
        primary == platformPattern(r.platform, r.arch)
        universal == <<"syncthing", "macos", "universal", "v1.28.0">>
        amd64 == <<"syncthing", "macos", "amd64", "v1.28.0">>
    IN  r.asset # -1 =>
           /\ matches(primary) # {} => r.asset = first(primary)
           /\ (matches(primary) = {} /\ r.platform # "darwin") => r.asset = 0
           /\ (matches(primary) = {} /\ r.platform = "darwin") =>
                 IF matches(universal) # {} THEN r.asset = first(universal)
                 ELSE IF matches(amd64) # {} THEN r.asset = first(amd64)
                 ELSE r.asset = 0
           /\ (r.platform = "linux" /\ r.arch = "x64" /\ r.asset > 0) =>
                 SubSeq(r.assets[r.asset], 1, 4) = <<"syncthing", "linux", "amd64", "v1.28.0">>

RECURSIVE Candidates(_)
\* The files named executableName below a directory, each with the number of
\* directories from that directory down to it
Candidates(dir) ==
    (IF dir.exe = NoFile THEN {} ELSE {[depth |-> 1, file |-> dir.exe]})
    \cup UNION {{[c EXCEPT !.depth = @ + 1] : c \in Candidates(dir.dirs[k])} :
                  k \in DOMAIN dir.dirs}

\* C24: the executable search never returns a file smaller than 1 MiB, and
\* when the extracted tree holds a file of that name of at least 1 MiB, such
\* a file is returned.
C24_NoSmallExecutable ==
    LET t == sup.inst
    IN  /\ t.picked.found => t.picked.file.size >= MiB
        /\ (\E c \in Candidates(t.extracted) : c.file.size >= MiB) => t.picked.found

\* C25: no file of that name that passes the size test lies at a strictly
\* smaller depth than the file the search returns.
C25_ShallowestExecutable ==
    LET t == sup.inst
    IN  t.picked.found =>
           \A c \in Candidates(t.extracted) :
              c.file.size > MiB => c.depth >= t.picked.depth

\* C26: no step of the installer changes the engine's config directory.
C26_ConfigDirUntouched == [][sup'.inst.config = sup.inst.config]_vars

\* C27: after a successful installation the install directory holds nothing
\* but the canonical executable, and a further cleanup changes nothing.
C27_OnlyCanonicalRemains ==
    LET t == sup.inst
    IN  t.result = "true" =>
           /\ t.canonical # NoFile
           /\ t.root = [exe |-> IF t.platform = "win32" THEN t.canonical ELSE NoFile,
                        dirs |-> <<>>]
           /\ cleanupExtractedFiles(t, FALSE) = t

\* C30: after a successful installation the canonical executable is the file
\* the new archive brought, also when an older one was there before.
C30_ReinstallReplacesBinary ==
    sup.inst.result = "true" => sup.inst.canonical.origin = "new"

\* C28: a startSyncthing() call that has ended has produced exactly one
\* terminal notice.
C28_OneTerminalNotice ==
    \A i \in Starts :
       sup.starts[i].pc = "done" => terminalNotices(sup.starts[i].outcome) = 1

\* C29: after a spawn the readiness wait makes at most 30 attempts, the call
\* then ends, and in the step that ends it, after a response as after the
\* last attempt, the monitor is started.
C29_WaitEndsAndMonitorStarts ==
    /\ [](\A i \in Starts : sup.starts[i].attempts <= maxAttempts)
    /\ [][\A i \in Starts :
             (sup.starts[i].pc = "waitStartup" /\ sup'.starts[i].pc = "done")
                => mon' = startStatusMonitoring([World EXCEPT !.sup = sup']).mon
                   /\ mon'.monitoring]_vars
    /\ \A i \in Starts :
          (sup.starts[i].pc \in {"startupDelay", "waitStartup"})
             ~> (sup.starts[i].pc = "done")

C29_Witness ==
    \E i \in Starts :
       /\ sup.starts[i].pc = "done"
       /\ sup.starts[i].attempts = maxAttempts
       /\ mon.monitoring

\* C31: a round of the event loop that processes events after a zero-peer
\* connections round (status 'No devices connected', zero connected peers)
\* emits no snapshot that shows zero connected peers with another status than
\* 'No devices connected'.
C31_ZeroPeersOverrideHolds ==
    [][\A events \in EventBatches :
          (/\ EventRoundOn(events)
           /\ mon.status = Disconnected
           /\ mon.connectedDevicesCount = 0)
             => (mon'.emitted.connectedDevicesCount = 0
                    => mon'.emitted.status = Disconnected)]_vars

\* C32: on a desktop the monitor has at most one event poll pending (a timer)
\* or in flight (a request), whatever startMonitoring() calls follow each
\* other.
C32_OneEventPollChain ==
    ~mon.isMobileMode =>
        mon.evReq + mon.orphanTimers
          + (IF mon.pollingTimeoutId = "pending" THEN 1 ELSE 0) <= 1

\* The event polls of monitor m that are pending or in flight
EventPolls(m) ==
    m.evReq + m.orphanTimers + (IF m.pollingTimeoutId = "pending" THEN 1 ELSE 0)
      + m.evReqM + m.mobileTimers

\* C33: every event poll that completes, with whatever outcome and in either
\* loop, schedules exactly one successor: the number of pending or in-flight
\* event polls is the same after the step as before.
C33_OneSuccessorPerPoll ==
    [][EventRoundEnds => EventPolls(mon') = EventPolls(mon)]_vars

\* C34: when the only startSyncthing() call so far has spawned and
\* stopSyncthing() has stopped its process since, the startup timer or the
\* readiness wait of that call does not start the monitor.
C34_NoMonitorAfterStop ==
    [][\A i \in Starts :
          (/\ sup.starts[i].pc \in {"startupDelay", "waitStartup"}
           /\ sup.proc[sup.starts[i].pid].stopped
           /\ \A j \in Starts \ {i} :
                 sup.starts[j].pc = "idle" /\ sup'.starts[j].pc = "idle"
           /\ sup.restartTimers = 0
           /\ ~mon.monitoring)
             => ~mon'.monitoring]_vars

\* C38: a desktop connections round that finds a connected peer while the
\* status is 'No devices connected' emits no snapshot that shows that status
\* together with a connected peer.
C38_DisconnectedEndsWithPeers ==
    [][\A c \in ConnectionsResponses, id \in {MyID, ""} :
          (/\ mon.idReq > 0
           /\ mon' = deviceIdResolved(mon, c, id)
           /\ mon.status = Disconnected
           /\ mon'.connectedDevicesCount > 0)
             => ~(/\ mon'.emitted.event = "status-update"
                  /\ mon'.emitted.status = Disconnected
                  /\ mon'.emitted.connectedDevicesCount > 0)]_vars

\* C35: the monitor has at most one 'status-update' listener, and a snapshot
\* it emits reaches the status-bar update at most once.
C35_OneStatusListener ==
    /\ mon.listeners <= 1
    /\ mon.emitted.event = "status-update" => mon.emitted.delivered <= 1

\* The engine's document holds what the operation changed
Holds(op) ==
    CASE op = "apply" -> sup.rmw.ignorePatterns = sup.sel.ignorePatterns
      [] op = "fix" -> ~hasChanges(sup.enc.config, sup.enc.policy)
      [] op = "pause" -> sup.rmw.paused

\* C36: when two of the plugin's operations on the engine's document have
\* both succeeded, however their reads and writes interleaved, the document
\* holds what each of them changed.
C36_NoLostUpdate ==
    \A op1, op2 \in ConfigOps :
       (/\ op1 # op2
        /\ sup.rmw.ops[op1].result = "ok"
        /\ sup.rmw.ops[op2].result = "ok")
          => Holds(op1) /\ Holds(op2)

\* C37: the ensureConfigForPort() of a startSyncthing() call leaves the
\* engine's files in the config directory as they were when the marker is
\* absent or holds the requested port, and leaves the requested port in the
\* marker.
C37_ReconcileKeepsFilesSetsMarker ==
    [][\A i \in Starts :
          (/\ sup.starts[i].pc = "probe"
           /\ sup'.starts[i].pc \in {"stopWait", "fsWait"})
             => /\ sup.marker \in {NoPort, sup'.starts[i].port}
                   => sup'.files = sup.files
                /\ sup'.marker = sup'.starts[i].port]_vars

\* C39: checkAndFixEncryptionMismatch() leaves every folder whose device
\* entries agree on having a password as it was, whatever the policy says.
C39_AgreeingFoldersUntouched ==
    [][\A f \in DOMAIN sup.enc.config.folders :
          ~disagree(sup.enc.config.folders[f])
             => sup'.enc.config.folders[f] = sup.enc.config.folders[f]]_vars

\* A call has written, and a folder whose entries agree holds another
\* password than the policy's
C39_Witness ==
    /\ \E k \in DOMAIN sup.enc.calls :
          sup.enc.calls[k].wrote /\ sup.enc.calls[k].result
    /\ \E f \in DOMAIN sup.enc.config.folders :
          /\ ~disagree(sup.enc.config.folders[f])
          /\ \E d \in DOMAIN sup.enc.config.folders[f] :
                sup.enc.config.folders[f][d] # policyPassword(sup.enc.policy)

=============================================================================
